---- MODULE Spec2Model ----
(***************************************************************************)
(* Model of the contact form API endpoint (the POST handler of the         *)
(* contact route): rate limiting, honeypot and keyword spam protection,    *)
(* field, email and attachment validation, webhook notification.           *)
(*                                                                         *)
(* Strings of the form payload are sequences of one-character strings, so  *)
(* that toLowerCase, includes and the email regular expression are         *)
(* computed character by character. A form field is a record               *)
(* [nul, s]: formData.get returns null for an absent field.                *)
(***************************************************************************)
EXTENDS Integers, Sequences, FiniteSets, TLC

\* ------------------------------------------------------------------ bounds
\* Requests that may be in flight (suspended at an await) at the same time.
NumSlots == 2
\* The clock may run until MaxWindows windows (plus MaxWindows ms) have passed.
MaxWindows == 1
\* Longest email address of the exhaustive email sweep.
MaxEmailLen == 5
\* The serving process may be restarted MaxRestarts times.
MaxRestarts == 1

\* ------------------------------------------------------- program constants
\* now + 3600000: the length of the rate limit window, in ms.
WindowMs == 3600000
\* rateLimit.count >= 5
RateLimitMax == 5
\* data.attachment.size > 10 * 1024 * 1024
MaxFileSize == 10 * 1024 * 1024

\* ------------------------------------------------------------------ strings
Null == [nul |-> TRUE, s |-> <<>>]
Str(chars) == [nul |-> FALSE, s |-> chars]

\* JavaScript truthiness of a value that is a string or null.
Truthy(f) == ~f.nul /\ f.s # <<>>

\* `${x}` of a template literal.
Interpolate(f) == IF f.nul THEN <<"n", "u", "l", "l">> ELSE f.s

\* x || ''
OrEmpty(f) == IF Truthy(f) THEN f.s ELSE <<>>

UpperCase ==
  <<"A", "B", "C", "D", "E", "F", "G", "H", "I", "J", "K", "L", "M",
    "N", "O", "P", "Q", "R", "S", "T", "U", "V", "W", "X", "Y", "Z">>
LowerCase ==
  <<"a", "b", "c", "d", "e", "f", "g", "h", "i", "j", "k", "l", "m",
    "n", "o", "p", "q", "r", "s", "t", "u", "v", "w", "x", "y", "z">>

toLowerCaseChar(c) ==
  IF \E i \in 1..Len(UpperCase) : UpperCase[i] = c
  THEN LowerCase[CHOOSE i \in 1..Len(UpperCase) : UpperCase[i] = c]
  ELSE c

\* String.prototype.toLowerCase
toLowerCase(str) == [i \in 1..Len(str) |-> toLowerCaseChar(str[i])]

\* String.prototype.includes
includes(str, keyword) ==
  \E i \in 0..(Len(str) - Len(keyword)) :
    SubSeq(str, i + 1, i + Len(keyword)) = keyword

\* \s of a regular expression (the characters of it the payloads use).
WhiteSpace == {" ", "\t", "\n"}

\* [^\s@]+ matched against str[from..to]
NoSpaceNoAt(str, from, to) ==
  /\ from <= to
  /\ \A k \in from..to : str[k] \notin WhiteSpace /\ str[k] # "@"

\* Mutant: the regular expression without the dot of the domain,
\* /^[^\s@]+@[^\s@]+$/.
emailRegexNoDot(email) ==
  \E i \in 1..Len(email) :
    /\ email[i] = "@"
    /\ NoSpaceNoAt(email, 1, i - 1)
    /\ NoSpaceNoAt(email, i + 1, Len(email))

\* emailRegex.test(email) for /^[^\s@]+@[^\s@]+\.[^\s@]+$/
emailRegexTest(email) ==
  \E i \in 1..Len(email) : \E j \in 1..Len(email) :
    /\ email[i] = "@"
    /\ email[j] = "."
    /\ NoSpaceNoAt(email, 1, i - 1)
    /\ NoSpaceNoAt(email, i + 1, j - 1)
    /\ NoSpaceNoAt(email, j + 1, Len(email))

spamKeywords ==
  { <<"c", "a", "s", "i", "n", "o">>,
    <<"v", "i", "a", "g", "r", "a">>,
    <<"p", "o", "r", "n">>,
    <<"g", "a", "m", "b", "l", "i", "n", "g">>,
    <<"c", "r", "y", "p", "t", "o", " ", "m", "i", "n", "i", "n", "g">> }

allowedTypes ==
  { "application/pdf",
    "application/msword",
    "application/vnd.openxmlformats-officedocument.wordprocessingml.document",
    "application/vnd.ms-excel",
    "application/vnd.openxmlformats-officedocument.spreadsheetml.sheet",
    "application/zip" }

\* ------------------------------------------------------------ the gates
\* if (data.website)
honeypotFilled(data) == Truthy(data.website)

\* !data.service || !data.message || !data.firstName || !data.lastName || !data.email
missingRequired(data) ==
  \/ ~Truthy(data.service)
  \/ ~Truthy(data.message)
  \/ ~Truthy(data.firstName)
  \/ ~Truthy(data.lastName)
  \/ ~Truthy(data.email)

\* Mutant: the text is not lower-cased.
contentToCheckCaseSensitive(data) ==
  Interpolate(data.message) \o <<" ">> \o OrEmpty(data.company) \o <<" ">>
  \o Interpolate(data.firstName) \o <<" ">> \o Interpolate(data.lastName)

\* `${data.message} ${data.company || ''} ${data.firstName} ${data.lastName}`.toLowerCase()
contentToCheck(data) ==
  toLowerCase(Interpolate(data.message) \o <<" ">> \o OrEmpty(data.company) \o <<" ">>
              \o Interpolate(data.firstName) \o <<" ">> \o Interpolate(data.lastName))

\* Mutant: each field is searched on its own.
containsSpamPerField(data) ==
  \E f \in {Interpolate(data.message), OrEmpty(data.company),
             Interpolate(data.firstName), Interpolate(data.lastName)} :
    \E keyword \in spamKeywords : includes(toLowerCase(f), keyword)

\* spamKeywords.some(keyword => contentToCheck.includes(keyword))
containsSpam(data) ==
  \E keyword \in spamKeywords : includes(contentToCheck(data), keyword)

\* Mutant: an empty file counts as an attachment.
hasAttachmentAnySize(data) == ~data.attachment.nul

\* data.attachment && data.attachment.size > 0
hasAttachment(data) == ~data.attachment.nul /\ data.attachment.size > 0

\* Mutant: application/zip is missing from the list.
badFileTypeNoZip(data) == data.attachment.type \notin (allowedTypes \ {"application/zip"})

\* !allowedTypes.includes(data.attachment.type)
badFileType(data) == data.attachment.type \notin allowedTypes

\* Mutant: >= instead of >.
fileTooLargeInclusive(data) == data.attachment.size >= MaxFileSize

\* data.attachment.size > 10 * 1024 * 1024
fileTooLarge(data) == data.attachment.size > MaxFileSize

\* Mutant: the honeypot is tested after the validation of the fields.
GateValidationFirst(data) ==
  IF missingRequired(data) THEN "required"
  ELSE IF ~emailRegexTest(data.email.s) THEN "email"
  ELSE IF honeypotFilled(data) THEN "honeypot"
  ELSE IF containsSpam(data) THEN "keywords"
  ELSE IF hasAttachment(data) /\ badFileType(data) THEN "fileType"
  ELSE IF hasAttachment(data) /\ fileTooLarge(data) THEN "fileSize"
  ELSE "accepted"

\* Mutant: the keywords are tested before the required fields and the email.
GateKeywordsFirst(data) ==
  IF honeypotFilled(data) THEN "honeypot"
  ELSE IF containsSpam(data) THEN "keywords"
  ELSE IF missingRequired(data) THEN "required"
  ELSE IF ~emailRegexTest(data.email.s) THEN "email"
  ELSE IF hasAttachment(data) /\ badFileType(data) THEN "fileType"
  ELSE IF hasAttachment(data) /\ fileTooLarge(data) THEN "fileSize"
  ELSE "accepted"

\* The return statement a parsed request ends at, or "accepted" when it reaches
\* the rate limit update: the if-chain of the handler, in its order.
Gate(data) ==
  IF honeypotFilled(data) THEN "honeypot"
  ELSE IF missingRequired(data) THEN "required"
  ELSE IF ~emailRegexTest(data.email.s) THEN "email"
  ELSE IF containsSpam(data) THEN "keywords"
  ELSE IF hasAttachment(data) /\ badFileType(data) THEN "fileType"
  ELSE IF hasAttachment(data) /\ fileTooLarge(data) THEN "fileSize"
  ELSE "accepted"

\* ------------------------------------------------------------ responses
TooManyResponse ==
  [status |-> 429,
   body |-> [success |-> FALSE,
             error |-> "Too many submissions. Please try again later."]]
\* Mutant: detected spam is answered like an accepted submission.
SpamResponseWithMessage ==
  [status |-> 200,
   body |-> [success |-> TRUE,
             message |-> "Your message has been sent successfully. We'll get back to you within 24 hours."]]

\* new Response(JSON.stringify({ success: true }), { status: 200 })
SpamResponse == [status |-> 200, body |-> [success |-> TRUE]]
MissingResponse ==
  [status |-> 400, body |-> [success |-> FALSE, error |-> "Missing required fields"]]
EmailResponse ==
  [status |-> 400, body |-> [success |-> FALSE, error |-> "Invalid email address"]]
FileTypeResponse ==
  [status |-> 400,
   body |-> [success |-> FALSE,
             error |-> "Invalid file type. Only PDF, DOC, DOCX, XLS, XLSX, ZIP allowed."]]
FileSizeResponse ==
  [status |-> 400,
   body |-> [success |-> FALSE, error |-> "File too large. Maximum size is 10MB."]]
SuccessResponse ==
  [status |-> 200,
   body |-> [success |-> TRUE,
             message |-> "Your message has been sent successfully. We'll get back to you within 24 hours."]]
ErrorResponse ==
  [status |-> 500,
   body |-> [success |-> FALSE,
             error |-> "An unexpected error occurred. Please try again or contact us directly."]]

\* The response of the return statement a request ends at.
GateResponse(gate) ==
  CASE gate = "honeypot" -> SpamResponse
    [] gate = "required" -> MissingResponse
    [] gate = "email" -> EmailResponse
    [] gate = "keywords" -> SpamResponse
    [] gate = "fileType" -> FileTypeResponse
    [] gate = "fileSize" -> FileSizeResponse
    [] gate = "accepted" -> SuccessResponse

\* ------------------------------------------------ the service worker (sw.js)
\* A URL is the sequence of its parts: scheme and host, then the parts of the
\* path, a file extension being a part of its own. The URL string is the
\* concatenation of the parts, so that a prefix of parts is a prefix of the
\* string.
Origin == <<"https://eexperts.info">>

ApiContact == Origin \o <<"/api/contact">>
HomePage == Origin \o <<"/">>
ContactPage == Origin \o <<"/contact/">>
OfflinePage == Origin \o <<"/offline", ".html">>
Logo == Origin \o <<"/logo", ".png">>
Script == Origin \o <<"/app", ".js">>
Fonts == <<"https://fonts.googleapis.com", "/css2">>
\* https://eexperts.info.attacker.example/x.js: another host, whose URL starts
\* with the string of the origin.
LookAlike == Origin \o <<".attacker.example", "/x", ".js">>

\* The URLs this origin serves.
SameOriginUrls == {ApiContact, HomePage, ContactPage, OfflinePage, Logo, Script}
SwUrls == SameOriginUrls \cup {Fonts, LookAlike}

\* String.prototype.startsWith
startsWith(str, prefix) ==
  Len(prefix) <= Len(str) /\ SubSeq(str, 1, Len(prefix)) = prefix

\* DYNAMIC_CACHE_PATTERNS.some(pattern => pattern.test(event.request.url))
shouldCache(url) ==
  \/ url[1] = "https://fonts.googleapis.com" /\ Len(url) >= 2
  \/ url[1] = "https://fonts.gstatic.com" /\ Len(url) >= 2
  \/ url[Len(url)] \in {".png", ".jpg", ".jpeg", ".svg", ".gif", ".webp", ".ico"}
  \/ url[Len(url)] \in {".js", ".css"}

\* Mutant: the handler skips cross-origin requests only.
swSkipsCrossOriginOnly(request) == ~startsWith(request.url, Origin)

\* event.request.method !== 'GET' || !event.request.url.startsWith(self.location.origin):
\* the handler returns without event.respondWith.
swSkips(request) ==
  request.method # "GET" \/ ~startsWith(request.url, Origin)

\* !response || response.status !== 200 || response.type !== 'basic'
notValidResponse(response) == response.status # 200 \/ response.type # "basic"

\* What fetch(event.request) may resolve to: a response of this origin has type
\* basic; a response of another origin has type cors, or is opaque (status 0).
NetworkResponses(url) ==
  IF url \in SameOriginUrls
  THEN {[status |-> st, type |-> "basic"] : st \in {200, 404, 500}}
  ELSE {[status |-> 200, type |-> "cors"], [status |-> 0, type |-> "opaque"]}

SwRequests ==
  [method : {"GET", "POST"}, url : SwUrls, mode : {"navigate", "cors"}]

\* An entry of the Cache: the request (method, url) and the status and type of
\* the response stored for it; by tells which code stored it.
Entry(method, url, response, by) ==
  [method |-> method, url |-> url, status |-> response.status,
   type |-> response.type, by |-> by]
NoEntry == [method |-> "", url |-> <<>>, status |-> 0, type |-> "", by |-> ""]
NoEvent == [method |-> "", url |-> <<>>, mode |-> ""]
NoAnswer == [from |-> "none", status |-> 0]

\* cache.addAll(STATIC_CACHE_URLS) of the install event (the URLs of it the
\* model uses), and cache.addAll(criticalUrls) of syncCriticalContent.
StaticEntries ==
  {Entry("GET", u, [status |-> 200, type |-> "basic"], "install") :
     u \in {HomePage, ContactPage, OfflinePage}}
CriticalEntries ==
  {Entry("GET", ApiContact, [status |-> 200, type |-> "basic"], "periodicsync")}

\* No service worker at work.
NoSW ==
  [cache |-> {}, pc |-> "idle", event |-> NoEvent, answer |-> NoAnswer, put |-> NoEntry]

\* ------------------------------------------------------------- the state
Slots == 1..NumSlots

\* clientAddress of a request; "" stands for an absent (undefined) address.
Addresses == {"", "203.0.113.7"}

\* Mutant: one identity for every client.
clientIPOfShared(clientAddress) == "unknown"

\* clientAddress || 'unknown'
clientIPOf(clientAddress) == IF clientAddress = "" THEN "unknown" ELSE clientAddress

ClientIPs == {clientIPOf(a) : a \in Addresses}

\* The { count, resetTime } objects: rateLimitStore maps a client to a reference,
\* and the local variable rateLimit of a request holds a reference, so that a
\* request that got its object from the Map mutates the stored object itself.
NoRef == 0
ObjRefs == 1..(Cardinality(ClientIPs) + NumSlots)
FreeObj == [count |-> 0, resetTime |-> 0]

NoFile == [nul |-> TRUE, type |-> "", size |-> 0]
File(type, size) == [nul |-> FALSE, type |-> type, size |-> size]

NoData ==
  [service |-> Null, message |-> Null, firstName |-> Null, lastName |-> Null,
   email |-> Null, company |-> Null, website |-> Null, attachment |-> NoFile,
   phone |-> Null, timeline |-> Null, projectSize |-> Null]
NoReq == [clientIP |-> "unknown", now |-> 0, rateLimit |-> NoRef, data |-> NoData]

\* The locals of a request whose handler has returned: the reference and the
\* time are dropped, the client and the payload stay for the record.
Returned(request) == [request EXCEPT !.rateLimit = NoRef, !.now = 0]
NoResp == [status |-> 0, body |-> [success |-> FALSE]]

VARIABLES
  now,             \* Date.now(), in ms
  webhookUrl,      \* process.env.CONTACT_FORM_WEBHOOK_URL is set
  rateLimitStore,  \* the Map: client -> reference of its object, or NoRef
  heap,            \* reference -> { count, resetTime }
  pc,              \* slot -> "idle" | "formData" | "fetch" | "responded"
  req,             \* slot -> the locals of the request handled in the slot
  resp,            \* slot -> the Response the handler returned
  exit,            \* slot -> the return statement the request ended at
  console,         \* slot -> the lines the request wrote to the console, in order
  fetchCalls,      \* slot -> number of fetch(webhookUrl) calls of the request
  acceptedAt,      \* client -> arrival time -> submissions accepted (history)
  restarts,        \* how often the serving process has been restarted
  sw               \* the service worker in the browser: its cache and its fetch event

vars ==
  <<now, webhookUrl, rateLimitStore, heap, pc, req, resp, exit, console,
    fetchCalls, acceptedAt, restarts, sw>>

InFlight(r) == pc[r] \in {"formData", "fetch"}

\* The objects some reference reaches; the others are garbage.
Collect(h, store, reqs) ==
  [o \in ObjRefs |->
     IF o \in {store[ip] : ip \in ClientIPs} \cup {reqs[s].rateLimit : s \in Slots}
     THEN h[o] ELSE FreeObj]

\* The reference a new object gets.
FreshRef ==
  LET free == ObjRefs \ ({rateLimitStore[ip] : ip \in ClientIPs}
                          \cup {req[s].rateLimit : s \in Slots})
  IN CHOOSE o \in free : \A q \in free : o <= q

\* History: the number of accepted submissions whose arrival time lies in the
\* window that ends at resetTime.
RECURSIVE SumOver(_, _)
SumOver(f, S) ==
  IF S = {} THEN 0
  ELSE LET t == CHOOSE x \in S : TRUE IN f[t] + SumOver(f, S \ {t})

AcceptedInWindow(ip, resetTime) ==
  SumOver(acceptedAt[ip],
          {t \in DOMAIN acceptedAt[ip] : resetTime - WindowMs <= t /\ t <= resetTime})

AddAccepted(log, t) ==
  IF t \in DOMAIN log THEN [log EXCEPT ![t] = @ + 1]
  ELSE [x \in DOMAIN log \cup {t} |-> IF x = t THEN 1 ELSE log[x]]

\* Mutant: >= instead of >, the window ends one instant early.
windowElapsedInclusive(time, rateLimit) == time >= rateLimit.resetTime

\* if (now > rateLimit.resetTime)
windowElapsed(time, rateLimit) == time > rateLimit.resetTime

\* Mutant: an accepted submission restarts the window.
incrementedSliding(rateLimit) ==
  [count |-> rateLimit.count + 1, resetTime |-> now + WindowMs]

\* rateLimit.count++
incremented(rateLimit) == [rateLimit EXCEPT !.count = @ + 1]

\* Mutant: every request restarts the window (a sliding lockout).
resetIfElapsedSliding(time, rateLimit) ==
  [count |-> IF windowElapsed(time, rateLimit) THEN 0 ELSE rateLimit.count,
   resetTime |-> time + WindowMs]

\* if (now > rateLimit.resetTime) { rateLimit.count = 0; rateLimit.resetTime = now + 3600000; }
resetIfElapsed(time, rateLimit) ==
  IF windowElapsed(time, rateLimit)
  THEN [count |-> 0, resetTime |-> time + WindowMs]
  ELSE rateLimit

\* Mutant: > instead of >=.
overLimitOffByOne(rateLimit) == rateLimit.count > RateLimitMax

\* if (rateLimit.count >= 5)
overLimit(rateLimit) == rateLimit.count >= RateLimitMax

Init ==
  /\ now = 0
  /\ webhookUrl \in BOOLEAN
  /\ rateLimitStore = [ip \in ClientIPs |-> NoRef]
  /\ heap = [o \in ObjRefs |-> FreeObj]
  /\ pc = [r \in Slots |-> "idle"]
  /\ req = [r \in Slots |-> NoReq]
  /\ resp = [r \in Slots |-> NoResp]
  /\ exit = [r \in Slots |-> "none"]
  /\ console = [r \in Slots |-> <<>>]
  /\ fetchCalls = [r \in Slots |-> 0]
  /\ acceptedAt = [ip \in ClientIPs |-> [t \in {} |-> 0]]
  /\ restarts = 0
  /\ sw = NoSW

\* POST, from its entry to the first await (request.formData()) or to the 429.
POSTStart(r, clientAddress, data) ==
  /\ pc[r] \in {"idle", "responded"}
  /\ LET clientIP == clientIPOf(clientAddress)
         stored == rateLimitStore[clientIP]
         ref == IF stored # NoRef THEN stored ELSE FreshRef
         got == IF stored # NoRef THEN heap[stored]
                ELSE [count |-> 0, resetTime |-> now + WindowMs]
         rateLimit == resetIfElapsed(now, got)
         request == [clientIP |-> clientIP, now |-> now, rateLimit |-> ref, data |-> data]
     IN /\ console' = [console EXCEPT ![r] = <<>>]
        /\ fetchCalls' = [fetchCalls EXCEPT ![r] = 0]
        /\ IF overLimit(rateLimit)
           THEN /\ pc' = [pc EXCEPT ![r] = "responded"]
                /\ req' = [req EXCEPT ![r] = Returned(request)]
                /\ resp' = [resp EXCEPT ![r] = TooManyResponse]
                /\ exit' = [exit EXCEPT ![r] = "rateLimit"]
                /\ heap' = Collect([heap EXCEPT ![ref] = rateLimit], rateLimitStore, req')
           ELSE /\ pc' = [pc EXCEPT ![r] = "formData"]
                /\ req' = [req EXCEPT ![r] = request]
                /\ resp' = [resp EXCEPT ![r] = NoResp]
                /\ exit' = [exit EXCEPT ![r] = "none"]
                /\ heap' = [heap EXCEPT ![ref] = rateLimit]
  /\ UNCHANGED <<now, webhookUrl, rateLimitStore, acceptedAt, restarts, sw>>

\* Mutant: a request whose body does not parse is counted.
FormDataRejectCounts(r) ==
  /\ pc[r] = "formData"
  /\ pc' = [pc EXCEPT ![r] = "responded"]
  /\ rateLimitStore' = [rateLimitStore EXCEPT ![req[r].clientIP] = req[r].rateLimit]
  /\ req' = [req EXCEPT ![r] = Returned(@)]
  /\ resp' = [resp EXCEPT ![r] = ErrorResponse]
  /\ exit' = [exit EXCEPT ![r] = "parse"]
  /\ console' = [console EXCEPT ![r] = Append(@, "error")]
  /\ heap' = Collect([heap EXCEPT ![req[r].rateLimit] = incremented(@)],
                     rateLimitStore', req')
  /\ UNCHANGED <<now, webhookUrl, fetchCalls, acceptedAt, restarts, sw>>

\* Mutant: the outer catch answers with the message of the error it caught.
FormDataRejectLeaks(r) ==
  /\ pc[r] = "formData"
  /\ pc' = [pc EXCEPT ![r] = "responded"]
  /\ req' = [req EXCEPT ![r] = Returned(@)]
  /\ resp' = [resp EXCEPT ![r] =
                [status |-> 500,
                 body |-> [success |-> FALSE,
                           error |-> "TypeError: Could not parse content as FormData."]]]
  /\ exit' = [exit EXCEPT ![r] = "parse"]
  /\ console' = [console EXCEPT ![r] = Append(@, "error")]
  /\ heap' = Collect(heap, rateLimitStore, req')
  /\ UNCHANGED <<now, webhookUrl, rateLimitStore, fetchCalls, acceptedAt, restarts, sw>>

\* request.formData() rejects: the outer catch (console.error 'Contact form
\* error') answers 500.
FormDataReject(r) ==
  /\ pc[r] = "formData"
  /\ pc' = [pc EXCEPT ![r] = "responded"]
  /\ req' = [req EXCEPT ![r] = Returned(@)]
  /\ resp' = [resp EXCEPT ![r] = ErrorResponse]
  /\ exit' = [exit EXCEPT ![r] = "parse"]
  /\ console' = [console EXCEPT ![r] = Append(@, "error")]
  /\ heap' = Collect(heap, rateLimitStore, req')
  /\ UNCHANGED <<now, webhookUrl, rateLimitStore, fetchCalls, acceptedAt, restarts, sw>>

\* Mutant: without a webhook the submission is dropped silently.
NotifySilentDrop(r) ==
  IF webhookUrl
  THEN /\ pc' = [pc EXCEPT ![r] = "fetch"]
       /\ fetchCalls' = [fetchCalls EXCEPT ![r] = @ + 1]
       /\ UNCHANGED <<resp, console>>
  ELSE /\ pc' = [pc EXCEPT ![r] = "responded"]
       /\ resp' = [resp EXCEPT ![r] = SuccessResponse]
       /\ UNCHANGED <<fetchCalls, console>>

\* Mutant: the confirmation tells how many submissions the client has left.
NotifyWithRemaining(r) ==
  IF webhookUrl
  THEN /\ pc' = [pc EXCEPT ![r] = "fetch"]
       /\ fetchCalls' = [fetchCalls EXCEPT ![r] = @ + 1]
       /\ UNCHANGED <<resp, console>>
  ELSE /\ pc' = [pc EXCEPT ![r] = "responded"]
       /\ console' = [console EXCEPT ![r] = @ \o <<"banner", "submission", "rule">>]
       /\ resp' = [resp EXCEPT ![r] =
                     [status |-> 200,
                      body |-> [success |-> TRUE,
                                message |-> SuccessResponse.body.message,
                                remaining |-> RateLimitMax - heap[req[r].rateLimit].count - 1]]]
       /\ UNCHANGED fetchCalls

\* The notification of an accepted submission, up to the await of
\* fetch(webhookUrl) or, without a webhook, to the response: one fetch call, or
\* the three console.log lines of which the second is the submission itself.
Notify(r) ==
  IF webhookUrl
  THEN /\ pc' = [pc EXCEPT ![r] = "fetch"]
       /\ fetchCalls' = [fetchCalls EXCEPT ![r] = @ + 1]
       /\ UNCHANGED <<resp, console>>
  ELSE /\ pc' = [pc EXCEPT ![r] = "responded"]
       /\ console' = [console EXCEPT ![r] = @ \o <<"banner", "submission", "rule">>]
       /\ resp' = [resp EXCEPT ![r] = SuccessResponse]
       /\ UNCHANGED fetchCalls

\* request.formData() resolves: the gates, then the rate limit update and the
\* notification, up to the await of fetch(webhookUrl) or to the response.
FormDataResolve(r) ==
  /\ pc[r] = "formData"
  /\ LET data == req[r].data
         gate == Gate(data)
         ref == req[r].rateLimit
         clientIP == req[r].clientIP
     IN IF gate # "accepted"
        THEN /\ pc' = [pc EXCEPT ![r] = "responded"]
             /\ req' = [req EXCEPT ![r] = Returned(@)]
             /\ resp' = [resp EXCEPT ![r] = GateResponse(gate)]
             /\ exit' = [exit EXCEPT ![r] = gate]
             /\ console' = [console EXCEPT ![r] =
                              IF gate \in {"honeypot", "keywords"} THEN Append(@, gate) ELSE @]
             /\ heap' = Collect(heap, rateLimitStore, req')
             /\ UNCHANGED <<rateLimitStore, fetchCalls, acceptedAt>>
        ELSE /\ rateLimitStore' = [rateLimitStore EXCEPT ![clientIP] = ref]
             /\ req' = [req EXCEPT ![r] = Returned(@)]
             /\ heap' = Collect([heap EXCEPT ![ref] = incremented(@)], rateLimitStore', req')
             /\ acceptedAt' = [acceptedAt EXCEPT ![clientIP] = AddAccepted(@, req[r].now)]
             /\ exit' = [exit EXCEPT ![r] = "accepted"]
             /\ Notify(r)
  /\ UNCHANGED <<now, webhookUrl, restarts, sw>>

\* What the awaited fetch(webhookUrl) may do.
FetchOutcomes == {"ok", "notOk", "throw"}

\* Mutant: no inner try/catch, a rejected fetch reaches the outer catch.
FetchSettleThrowEscapes(r, outcome) ==
  /\ pc[r] = "fetch"
  /\ pc' = [pc EXCEPT ![r] = "responded"]
  /\ console' = [console EXCEPT ![r] =
                   CASE outcome = "ok" -> @
                     [] outcome = "notOk" -> Append(@, "webhookFailed")
                     [] outcome = "throw" -> Append(@, "error")]
  /\ resp' = [resp EXCEPT ![r] =
                IF outcome = "throw" THEN ErrorResponse ELSE SuccessResponse]
  /\ UNCHANGED <<now, webhookUrl, rateLimitStore, heap, req, exit, fetchCalls, acceptedAt, restarts, sw>>

\* Mutant: a failed call is repeated once.
FetchSettleRetry(r, outcome) ==
  /\ pc[r] = "fetch"
  /\ console' = [console EXCEPT ![r] =
                   CASE outcome = "ok" -> @
                     [] outcome = "notOk" -> Append(@, "webhookFailed")
                     [] outcome = "throw" -> Append(@, "emailFailed")]
  /\ IF outcome # "ok" /\ fetchCalls[r] < 2
     THEN /\ fetchCalls' = [fetchCalls EXCEPT ![r] = @ + 1]
          /\ UNCHANGED <<pc, resp>>
     ELSE /\ pc' = [pc EXCEPT ![r] = "responded"]
          /\ resp' = [resp EXCEPT ![r] = SuccessResponse]
          /\ UNCHANGED fetchCalls
  /\ UNCHANGED <<now, webhookUrl, rateLimitStore, heap, req, exit, acceptedAt, restarts, sw>>

\* The fetch settles: a response that is not ok (console.error 'Webhook failed')
\* and a rejection (console.error 'Email sending failed') are logged, and the
\* handler answers 200 with the confirmation message.
FetchSettle(r, outcome) ==
  /\ pc[r] = "fetch"
  /\ pc' = [pc EXCEPT ![r] = "responded"]
  /\ console' = [console EXCEPT ![r] =
                   CASE outcome = "ok" -> @
                     [] outcome = "notOk" -> Append(@, "webhookFailed")
                     [] outcome = "throw" -> Append(@, "emailFailed")]
  /\ resp' = [resp EXCEPT ![r] = SuccessResponse]
  /\ UNCHANGED <<now, webhookUrl, rateLimitStore, heap, req, exit, fetchCalls, acceptedAt, restarts, sw>>

\* The values of the clock the model visits: with every value t also the last
\* instant t + WindowMs of a window that starts at t and the first instant
\* t + WindowMs + 1 after it, up to MaxWindows windows.
ClockValues == UNION {{k * WindowMs + j : j \in 0..k} : k \in 0..MaxWindows}

\* Time passes. Accepted submissions too old to lie in any window that can still
\* be live leave the history.
Tick(t) ==
  /\ t > now
  /\ now' = t
  /\ acceptedAt' =
       [ip \in ClientIPs |->
          [x \in {y \in DOMAIN acceptedAt[ip] : y >= now' - WindowMs} |-> acceptedAt[ip][x]]]
  /\ UNCHANGED <<webhookUrl, rateLimitStore, heap, pc, req, resp, exit, console, fetchCalls, restarts, sw>>

\* The serving process is restarted: the module is evaluated anew, new Map()
\* is empty, and the requests that were in flight are gone.
\* Mutant: the store outlives the process.
RestartKeepsStore ==
  /\ restarts < MaxRestarts
  /\ restarts' = restarts + 1
  /\ pc' = [r \in Slots |-> "idle"]
  /\ req' = [r \in Slots |-> NoReq]
  /\ resp' = [r \in Slots |-> NoResp]
  /\ exit' = [r \in Slots |-> "none"]
  /\ console' = [r \in Slots |-> <<>>]
  /\ fetchCalls' = [r \in Slots |-> 0]
  /\ heap' = Collect(heap, rateLimitStore, req')
  /\ UNCHANGED <<now, webhookUrl, rateLimitStore, acceptedAt, sw>>

Restart ==
  /\ restarts < MaxRestarts
  /\ restarts' = restarts + 1
  /\ rateLimitStore' = [ip \in ClientIPs |-> NoRef]
  /\ heap' = [o \in ObjRefs |-> FreeObj]
  /\ pc' = [r \in Slots |-> "idle"]
  /\ req' = [r \in Slots |-> NoReq]
  /\ resp' = [r \in Slots |-> NoResp]
  /\ exit' = [r \in Slots |-> "none"]
  /\ console' = [r \in Slots |-> <<>>]
  /\ fetchCalls' = [r \in Slots |-> 0]
  /\ UNCHANGED <<now, webhookUrl, acceptedAt, sw>>

\* What the service worker leaves alone: the server.
ServerVars ==
  <<now, webhookUrl, rateLimitStore, heap, pc, req, resp, exit, console,
    fetchCalls, acceptedAt, restarts>>

\* A fetch event: the handler returns at once (the browser handles the request
\* itself, over the network), or calls event.respondWith(caches.match(...)).
SwFetchEvent(request) ==
  /\ sw.pc \in {"idle", "passed", "answered"}
  /\ sw' = [sw EXCEPT !.event = request,
                       !.answer = NoAnswer,
                       !.pc = IF swSkips(request) THEN "passed" ELSE "match"]
  /\ UNCHANGED ServerVars

\* caches.match(event.request) resolves: the cached response, or on to fetch.
SwMatch ==
  /\ sw.pc = "match"
  /\ LET hit == {e \in sw.cache : e.url = sw.event.url /\ e.method = sw.event.method}
     IN IF hit # {}
        THEN sw' = [sw EXCEPT !.pc = "answered",
                              !.answer = [from |-> "cache",
                                          status |-> (CHOOSE e \in hit : TRUE).status]]
        ELSE sw' = [sw EXCEPT !.pc = "fetch"]
  /\ UNCHANGED ServerVars

\* fetch(event.request) resolves: the response is the answer; a response of
\* status 200 and type basic whose URL matches a pattern is put into the cache,
\* by caches.open(CACHE_NAME).then(...), after the handler has answered.
SwNetwork(response) ==
  /\ sw.pc = "fetch"
  /\ response \in NetworkResponses(sw.event.url)
  /\ LET stores == ~notValidResponse(response) /\ shouldCache(sw.event.url)
     IN /\ stores => sw.put = NoEntry
        /\ sw' = [sw EXCEPT !.pc = "answered",
                             !.answer = [from |-> "network", status |-> response.status],
                             !.put = IF stores
                                     THEN Entry(sw.event.method, sw.event.url, response, "fetch")
                                     ELSE @]
  /\ UNCHANGED ServerVars

\* fetch(event.request) rejects: the offline page for a navigation (when it is
\* cached), a 408 'Offline' response otherwise.
SwOffline ==
  /\ sw.pc = "fetch"
  /\ sw' = [sw EXCEPT !.pc = "answered",
                       !.answer =
                         IF sw.event.mode = "navigate"
                         THEN IF \E e \in sw.cache : e.url = OfflinePage
                              THEN [from |-> "cache", status |-> 200]
                              ELSE [from |-> "offline", status |-> 0]
                         ELSE [from |-> "offline", status |-> 408]]
  /\ UNCHANGED ServerVars

\* cache.put(event.request, responseToCache) replaces the entry of the request.
SwPut ==
  /\ sw.put # NoEntry
  /\ sw' = [sw EXCEPT !.cache = {e \in @ : e.url # sw.put.url} \cup {sw.put},
                       !.put = NoEntry]
  /\ UNCHANGED ServerVars

\* ------------------------------------------------------------- the inputs
pdf == "application/pdf"
png == "image/png"

ValidData ==
  [service |-> Str(<<"w", "e", "b">>),
   message |-> Str(<<"h", "i">>),
   firstName |-> Str(<<"A", "l">>),
   lastName |-> Str(<<"B", "o">>),
   email |-> Str(<<"a", "@", "b", ".", "c">>),
   company |-> Null,
   website |-> Null,
   attachment |-> NoFile,
   phone |-> Null,
   timeline |-> Null,
   projectSize |-> Null]

\* The payloads of the specification of concurrent requests: an accepted one and
\* one that ends at a gate.
ConcPayloads == {ValidData, [ValidData EXCEPT !.website = Str(<<"x">>)]}

\* The client of the specification of concurrent requests.
ConcAddress == "203.0.113.7"

\* The client of the specification of sequential requests: it sends no address.
SeqAddress == ""

\* The payloads of the specification of sequential requests: one payload for
\* each way a request can end.
CorePayloads ==
  { ValidData,
    [ValidData EXCEPT !.website = Str(<<"x">>)],
    [ValidData EXCEPT !.email = Null],
    [ValidData EXCEPT !.message = Str(<<"V", "i", "a", "g", "r", "a">>)],
    [ValidData EXCEPT !.attachment = File(png, 1)] }

Websites == {Null, Str(<<>>), Str(<<"x">>)}
Services == {Null, Str(<<" ">>), Str(<<"w", "e", "b">>)}
Messages ==
  {Str(<<>>), Str(<<"h", "i">>), Str(<<"V", "i", "A", "g", "R", "a">>),
   Str(<<"c", "r", "y", "p", "t", "o">>)}
FirstNames == {Str(<<"\t">>), Str(<<"A", "l">>)}
LastNames == {Null, Str(<<"B", "o">>)}
Emails ==
  {Null, Str(<<"a", "@", "b", ".", "c">>), Str(<<"a", "@", "b">>), Str(<<" ">>)}
Companies ==
  {Null, Str(<<"C", "a", "s", "i", "n", "o">>), Str(<<"m", "i", "n", "i", "n", "g">>)}
Attachments ==
  {NoFile, File(png, 0), File(pdf, 1), File(png, 1),
   File(pdf, MaxFileSize + 1), File(png, MaxFileSize + 1)}

EmailAlphabet == {"a", "@", ".", " "}
EmailSweep == UNION {[1..n -> EmailAlphabet] : n \in 0..MaxEmailLen}

FileTypes ==
  allowedTypes \cup {png, "text/html", "application/x-msdownload", ""}
FileSizes ==
  {1, 5 * 1024 * 1024, MaxFileSize - 1, MaxFileSize, MaxFileSize + 1, 11 * 1024 * 1024}

\* Valid submissions with a keyword in a field that the keyword check does not
\* read.
KeywordElsewhere ==
  { [ValidData EXCEPT !.email = Str(<<"p", "o", "r", "n", "@", "b", ".", "c">>)],
    [ValidData EXCEPT !.service = Str(<<"c", "a", "s", "i", "n", "o">>)],
    [ValidData EXCEPT !.phone = Str(<<"v", "i", "a", "g", "r", "a">>)],
    [ValidData EXCEPT !.timeline = Str(<<"g", "a", "m", "b", "l", "i", "n", "g">>)],
    [ValidData EXCEPT !.projectSize =
       Str(<<"c", "r", "y", "p", "t", "o", " ", "m", "i", "n", "i", "n", "g">>)] }

\* The payloads of the specification of the gates: every combination of the
\* field values above, every email address over EmailAlphabet up to MaxEmailLen
\* characters, and every attachment of FileTypes and FileSizes.
GatePayloads ==
  [service : Services, message : Messages, firstName : FirstNames,
   lastName : LastNames, email : Emails, company : Companies,
   website : Websites, attachment : Attachments,
   phone : {Null}, timeline : {Null}, projectSize : {Null}]
  \cup KeywordElsewhere
  \cup {[ValidData EXCEPT !.email = Str(e)] : e \in EmailSweep}
  \cup {[ValidData EXCEPT !.attachment = File(type, size)] :
          type \in FileTypes, size \in FileSizes}

\* ------------------------------------------------------- specifications
\* Requests are handled concurrently: a request may arrive while others are
\* suspended at an await.
Next ==
  \/ \E r \in Slots, d \in ConcPayloads : POSTStart(r, ConcAddress, d)
  \/ \E r \in Slots : FormDataReject(r)
  \/ \E r \in Slots : FormDataResolve(r)
  \/ \E r \in Slots, o \in FetchOutcomes : FetchSettle(r, o)
  \/ \E t \in ClockValues : Tick(t)

Spec == Init /\ [][Next]_vars

\* Requests are handled one after another: a request arrives only when the one
\* before it has been answered.
NextSeq ==
  \/ \E d \in CorePayloads : POSTStart(1, SeqAddress, d)
  \/ FormDataReject(1)
  \/ FormDataResolve(1)
  \/ \E o \in FetchOutcomes : FetchSettle(1, o)
  \/ \E t \in ClockValues : Tick(t)

SpecSeq == Init /\ [][NextSeq]_vars

\* Requests handled one after another, with the progress the runtime gives:
\* the promise of request.formData() settles, since the body of the request is
\* at hand. Whether and when the promise of fetch(webhookUrl) settles is up to
\* the endpoint: the call carries no signal and no timeout, so no fairness is
\* stated for FetchSettle.
SpecLive ==
  /\ Init
  /\ [][NextSeq]_vars
  /\ WF_vars(FormDataReject(1) \/ FormDataResolve(1))

\* One request of the client without address, with any payload of GatePayloads,
\* arriving when the clients have no record (k = -1) or each the live record of
\* count k that k submissions accepted at time 0 leave.
RefOf(ip) == IF ip = "unknown" THEN 1 ELSE 2

InitGates ==
  /\ now = 0
  /\ webhookUrl \in BOOLEAN
  /\ \E k \in (1..RateLimitMax) \cup {-1} :
       /\ rateLimitStore = [ip \in ClientIPs |-> IF k >= 0 THEN RefOf(ip) ELSE NoRef]
       /\ heap = [o \in ObjRefs |->
                    IF k >= 0 /\ o \in {RefOf(ip) : ip \in ClientIPs}
                    THEN [count |-> k, resetTime |-> WindowMs] ELSE FreeObj]
       /\ acceptedAt = [ip \in ClientIPs |-> [x \in (IF k > 0 THEN {0} ELSE {}) |-> k]]
  /\ pc = [r \in Slots |-> "idle"]
  /\ req = [r \in Slots |-> NoReq]
  /\ resp = [r \in Slots |-> NoResp]
  /\ exit = [r \in Slots |-> "none"]
  /\ console = [r \in Slots |-> <<>>]
  /\ fetchCalls = [r \in Slots |-> 0]
  /\ restarts = 0
  /\ sw = NoSW

NextGates ==
  \/ /\ pc[1] = "idle"
     /\ \E d \in GatePayloads : POSTStart(1, "", d)
  \/ FormDataReject(1)
  \/ FormDataResolve(1)
  \/ \E o \in FetchOutcomes : FetchSettle(1, o)

SpecGates == InitGates /\ [][NextGates]_vars

\* Two requests of two clients that are in the same rate limit state: slot 1
\* handles a request of the client without address with any payload of
\* CorePayloads, slot 2 a valid submission of the other client.
NextPair ==
  \/ /\ pc[1] = "idle"
     /\ \E d \in CorePayloads : POSTStart(1, "", d)
  \/ /\ pc[2] = "idle"
     /\ POSTStart(2, "203.0.113.7", ValidData)
  \/ \E r \in {1, 2} : FormDataReject(r)
  \/ \E r \in {1, 2} : FormDataResolve(r)
  \/ \E r \in {1, 2}, o \in FetchOutcomes : FetchSettle(r, o)

SpecPair == InitGates /\ [][NextPair]_vars

\* The same payload submitted twice by the client without address, the second
\* time when the first request has been answered; the clock may advance.
TwicePayloads ==
  CorePayloads
  \cup { [ValidData EXCEPT !.email = Str(<<"a", "@", "b">>)],
         [ValidData EXCEPT !.attachment = File(pdf, 1)],
         [ValidData EXCEPT !.attachment = File(pdf, MaxFileSize + 1)],
         [ValidData EXCEPT !.message = Str(<<"c", "r", "y", "p", "t", "o">>),
                           !.company = Str(<<"m", "i", "n", "i", "n", "g">>)] }

NextTwice ==
  \/ /\ pc[1] = "idle"
     /\ \E d \in TwicePayloads : POSTStart(1, "", d)
  \/ /\ pc[1] = "responded"
     /\ pc[2] = "idle"
     /\ POSTStart(2, "", req[1].data)
  \/ \E r \in {1, 2} : FormDataReject(r)
  \/ \E r \in {1, 2} : FormDataResolve(r)
  \/ \E r \in {1, 2}, o \in FetchOutcomes : FetchSettle(r, o)
  \/ \E t \in ClockValues : Tick(t)

SpecTwice == InitGates /\ [][NextTwice]_vars

\* Clients that send no address: their valid submissions arrive at any
\* moment, also while another request is suspended at an await.
NextAnon ==
  \/ \E r \in Slots : POSTStart(r, SeqAddress, ValidData)
  \/ \E r \in Slots : FormDataReject(r)
  \/ \E r \in Slots : FormDataResolve(r)
  \/ \E r \in Slots, o \in FetchOutcomes : FetchSettle(r, o)
  \/ \E t \in ClockValues : Tick(t)

SpecAnon == Init /\ [][NextAnon]_vars

\* Two clients that start with the same record (or none): slot 1 handles the
\* requests of the client without address, any number of them, one after
\* another; slot 2 handles one valid submission of the client 203.0.113.7,
\* which arrives at any moment when no request is in flight.
OtherAddress == "203.0.113.7"

NextTwo ==
  \/ /\ ~InFlight(2)
     /\ \E d \in ConcPayloads : POSTStart(1, "", d)
  \/ /\ ~InFlight(1)
     /\ pc[2] = "idle"
     /\ POSTStart(2, OtherAddress, ValidData)
  \/ \E r \in {1, 2} : FormDataReject(r)
  \/ \E r \in {1, 2} : FormDataResolve(r)
  \/ \E r \in {1, 2}, o \in FetchOutcomes : FetchSettle(r, o)
  \/ \E t \in ClockValues : Tick(t)

SpecTwo == InitGates /\ [][NextTwo]_vars

\* Requests handled one after another by a process that may be restarted.
NextRestart ==
  \/ NextSeq
  \/ Restart

SpecRestart == Init /\ [][NextRestart]_vars

\* The service worker alone: the cache holds nothing, or what the install event
\* put there, or also what the periodic sync put there.
InitSW ==
  /\ now = 0
  /\ webhookUrl = FALSE
  /\ rateLimitStore = [ip \in ClientIPs |-> NoRef]
  /\ heap = [o \in ObjRefs |-> FreeObj]
  /\ pc = [r \in Slots |-> "idle"]
  /\ req = [r \in Slots |-> NoReq]
  /\ resp = [r \in Slots |-> NoResp]
  /\ exit = [r \in Slots |-> "none"]
  /\ console = [r \in Slots |-> <<>>]
  /\ fetchCalls = [r \in Slots |-> 0]
  /\ acceptedAt = [ip \in ClientIPs |-> [t \in {} |-> 0]]
  /\ restarts = 0
  /\ \E c \in {{}, StaticEntries, StaticEntries \cup CriticalEntries} :
       sw = [NoSW EXCEPT !.cache = c]

NextSW ==
  \/ \E request \in SwRequests : SwFetchEvent(request)
  \/ SwMatch
  \/ \E response \in UNION {NetworkResponses(u) : u \in SwUrls} : SwNetwork(response)
  \/ SwOffline
  \/ SwPut

SpecSW == InitSW /\ [][NextSW]_vars

\* ------------------------------------------------------------ the claims
\* The vocabulary of the claims, defined apart from the handler's own tests.
Responded(r) == pc[r] = "responded"

\* The request was not answered 429 and its body parsed.
PassedEntry(r) == exit[r] \notin {"none", "rateLimit", "parse"}

\* How often a line was written to a console.
LogCount(log, line) == Cardinality({i \in DOMAIN log : log[i] = line})

\* NotificationDispatcher was not triggered: no webhook call, no notification log.
NoDispatch(r) == fetchCalls[r] = 0 /\ LogCount(console[r], "submission") = 0

NonEmpty(f) == ~f.nul /\ Len(f.s) > 0

RequiredFields(data) ==
  {data.service, data.message, data.firstName, data.lastName, data.email}

\* Absent, empty, or empty after trimming.
Blank(f) == f.nul \/ \A i \in 1..Len(f.s) : f.s[i] \in WhiteSpace

\* local@domain.tld: exactly one "@", no white space, a non-empty local part and
\* a dot strictly inside the part after the "@".
WellFormedEmail(e) ==
  /\ Cardinality({i \in 1..Len(e) : e[i] = "@"}) = 1
  /\ \A i \in 1..Len(e) : e[i] \notin WhiteSpace
  /\ LET at == CHOOSE i \in 1..Len(e) : e[i] = "@"
     IN /\ at > 1
        /\ \E k \in (at + 2)..(Len(e) - 1) : e[k] = "."

\* One of message, company, firstName, lastName contains a keyword, in any case.
KeywordInField(data) ==
  \E f \in {data.message, data.company, data.firstName, data.lastName} :
    \E keyword \in spamKeywords : ~f.nul /\ includes(toLowerCase(f.s), keyword)

Is200Success(response) == response.status = 200 /\ response.body.success = TRUE

Is400(response, text) ==
  /\ response.status = 400
  /\ response.body.success = FALSE
  /\ "error" \in DOMAIN response.body
  /\ response.body.error = text

\* Honeypot empty, the required fields there, the email well formed, no keyword.
OtherwiseAcceptable(data) ==
  /\ ~NonEmpty(data.website)
  /\ \A f \in RequiredFields(data) : NonEmpty(f)
  /\ WellFormedEmail(data.email.s)
  /\ ~containsSpam(data)

\* C1. Requests handled one after another: when five submissions of a client
\* have been accepted within the window of its record, a further request of the
\* client that arrives while now <= resetTime is answered 429 with success =
\* false, at once, and dispatches nothing.
C1_SixthIsRejected ==
  [][\A r \in Slots, a \in Addresses, d \in CorePayloads :
       LET stored == rateLimitStore[clientIPOf(a)]
       IN (/\ stored # NoRef
           /\ now <= heap[stored].resetTime
           /\ AcceptedInWindow(clientIPOf(a), heap[stored].resetTime) >= 5
           /\ POSTStart(r, a, d))
          => /\ pc'[r] = "responded"
             /\ resp'[r].status = 429
             /\ resp'[r].body.success = FALSE
             /\ fetchCalls'[r] = 0
             /\ LogCount(console'[r], "submission") = 0]_vars

C1_Witness ==
  \E r \in Slots :
    LET stored == rateLimitStore[req[r].clientIP]
    IN /\ Responded(r)
       /\ exit[r] = "rateLimit"
       /\ resp[r].status = 429
       /\ req[r].data = ValidData
       /\ stored # NoRef
       /\ AcceptedInWindow(req[r].clientIP, heap[stored].resetTime) >= 5
       /\ now = heap[stored].resetTime

\* C2. Under every interleaving of concurrent requests of one client, at most 5
\* of its submissions are accepted within one window: the window of the
\* client's record never holds more than 5 accepted submissions.
C2_AtMostFivePerWindow ==
  \A ip \in ClientIPs :
    rateLimitStore[ip] # NoRef =>
      AcceptedInWindow(ip, heap[rateLimitStore[ip]].resetTime) <= 5

\* C3. Every request that is not rate-limited is counted, however it ends: when
\* its body parse settles, the client has a record; a client that had none gets
\* count = 1 and resetTime = now + 1 hour (now: the request's arrival), a client
\* with a live record of count < 5 gets count + 1.
C3_EveryRequestCounted ==
  [][\A r \in Slots :
       LET ip == req[r].clientIP
           stored == rateLimitStore[ip]
           after == rateLimitStore'[ip]
       IN (FormDataResolve(r) \/ FormDataReject(r))
          => /\ after # NoRef
             /\ stored = NoRef =>
                  /\ heap'[after].count = 1
                  /\ heap'[after].resetTime = req[r].now + WindowMs
             /\ (stored # NoRef /\ heap[stored].count < 5) =>
                  /\ heap'[after].count = heap[stored].count + 1]_vars

\* C4. A request that is not rate-limited, whose body parses and whose honeypot
\* field website is non-empty is answered 200 with success = true and never
\* dispatches, whatever its other fields are.
C4_HoneypotSilent ==
  \A r \in Slots :
    NonEmpty(req[r].data.website) =>
      /\ NoDispatch(r)
      /\ (Responded(r) /\ PassedEntry(r)) => Is200Success(resp[r])

C4_Witness ==
  \E r \in Slots :
    /\ Responded(r)
    /\ PassedEntry(r)
    /\ NonEmpty(req[r].data.website)
    /\ req[r].data.service.nul
    /\ ~WellFormedEmail(req[r].data.email.s)
    /\ KeywordInField(req[r].data)
    /\ req[r].data.attachment = File(png, MaxFileSize + 1)
    /\ Is200Success(resp[r])

\* C5. A request that is not rate-limited, with an empty honeypot, the five
\* required fields and a well-formed email, one of whose message, company,
\* firstName, lastName contains a keyword in any letter case, is answered 200
\* with success = true and never dispatches.
C5_KeywordSilent ==
  \A r \in Slots :
    (/\ ~NonEmpty(req[r].data.website)
     /\ \A f \in RequiredFields(req[r].data) : NonEmpty(f)
     /\ WellFormedEmail(req[r].data.email.s)
     /\ KeywordInField(req[r].data))
    => /\ NoDispatch(r)
       /\ (Responded(r) /\ PassedEntry(r)) => Is200Success(resp[r])

C5_Witness ==
  \E r \in Slots :
    /\ Responded(r)
    /\ PassedEntry(r)
    /\ ~NonEmpty(req[r].data.website)
    /\ WellFormedEmail(req[r].data.email.s)
    /\ req[r].data.message = Str(<<"V", "i", "A", "g", "R", "a">>)
    /\ req[r].data.attachment = File(pdf, 1)
    /\ Is200Success(resp[r])
    /\ NoDispatch(r)

\* C6. Spam detection is not revealed: for two requests of clients in the same
\* rate limit state, one classified as spam (honeypot or keywords) and one
\* accepted, the responses (status and body) are equal.
C6_SpamIndistinguishable ==
  (/\ Responded(1) /\ Responded(2)
   /\ exit[1] \in {"honeypot", "keywords"}
   /\ exit[2] = "accepted")
  => resp[1] = resp[2]

\* C7. A request that is not rate-limited, with an empty honeypot, one of whose
\* service, message, firstName, lastName, email is absent, empty or white space
\* only, is answered 400 with success = false and the error "Missing required
\* fields", and never dispatches.
C7_BlankIsMissing ==
  \A r \in Slots :
    (/\ ~NonEmpty(req[r].data.website)
     /\ \E f \in RequiredFields(req[r].data) : Blank(f))
    => /\ NoDispatch(r)
       /\ (Responded(r) /\ PassedEntry(r)) => Is400(resp[r], "Missing required fields")

\* C8. A request that is not rate-limited, with an empty honeypot and the five
\* required fields non-empty, whose email is not of the form local@domain.tld is
\* answered 400 with success = false and the error "Invalid email address", and
\* never dispatches, also when its text contains a spam keyword.
C8_MalformedEmail ==
  \A r \in Slots :
    (/\ ~NonEmpty(req[r].data.website)
     /\ \A f \in RequiredFields(req[r].data) : NonEmpty(f)
     /\ ~WellFormedEmail(req[r].data.email.s))
    => /\ NoDispatch(r)
       /\ (Responded(r) /\ PassedEntry(r)) => Is400(resp[r], "Invalid email address")

C8_Witness ==
  \E r \in Slots :
    /\ Responded(r)
    /\ PassedEntry(r)
    /\ ~NonEmpty(req[r].data.website)
    /\ \A f \in RequiredFields(req[r].data) : NonEmpty(f)
    /\ req[r].data.email = Str(<<"a", "@", "b">>)
    /\ KeywordInField(req[r].data)
    /\ Is400(resp[r], "Invalid email address")

FileTypeError == "Invalid file type. Only PDF, DOC, DOCX, XLS, XLSX, ZIP allowed."
FileSizeError == "File too large. Maximum size is 10MB."

\* C9 as stated. An otherwise acceptable submission with a non-empty attachment
\* is accepted if and only if the type is one of the six allowed types and the
\* size is at most 10 MiB; a type outside the list yields 400 "invalid file
\* type", a size above 10 MiB yields 400 "file too large", without dispatch.
C9_AsStated ==
  \A r \in Slots :
    LET data == req[r].data
        file == data.attachment
    IN (/\ Responded(r) /\ PassedEntry(r)
        /\ OtherwiseAcceptable(data)
        /\ ~file.nul /\ file.size > 0)
       => /\ exit[r] = "accepted" <=> (file.type \in allowedTypes /\ file.size <= 10485760)
          /\ file.type \notin allowedTypes =>
               Is400(resp[r], FileTypeError) /\ NoDispatch(r)
          /\ file.size > 10485760 =>
               Is400(resp[r], FileSizeError) /\ NoDispatch(r)

\* C9 as amended. As C9, but a size above 10 MiB yields 400 "file too large" when
\* the type is one of the allowed types (a type outside the list yields "invalid
\* file type" whatever the size).
C9_Attachment ==
  \A r \in Slots :
    LET data == req[r].data
        file == data.attachment
    IN (/\ Responded(r) /\ PassedEntry(r)
        /\ OtherwiseAcceptable(data)
        /\ ~file.nul /\ file.size > 0)
       => /\ exit[r] = "accepted" <=> (file.type \in allowedTypes /\ file.size <= 10485760)
          /\ exit[r] = "accepted" => resp[r] = SuccessResponse
          /\ file.type \notin allowedTypes =>
               Is400(resp[r], FileTypeError) /\ NoDispatch(r)
          /\ (file.type \in allowedTypes /\ file.size > 10485760) =>
               Is400(resp[r], FileSizeError) /\ NoDispatch(r)

C9_Witness ==
  \E r \in Slots :
    /\ Responded(r)
    /\ PassedEntry(r)
    /\ OtherwiseAcceptable(req[r].data)
    /\ req[r].data.attachment = File("application/zip", 11 * 1024 * 1024)
    /\ Is400(resp[r], FileSizeError)

\* C10. The size limit is exactly 10485760 bytes, inclusive: an otherwise
\* acceptable submission with an attachment of an allowed type is accepted when
\* the size is exactly 10485760 and answered 400 "file too large" when it is
\* 10485761.
C10_SizeLimitInclusive ==
  /\ MaxFileSize = 10485760
  /\ \A r \in Slots :
       LET data == req[r].data
           file == data.attachment
       IN (/\ Responded(r) /\ PassedEntry(r)
           /\ OtherwiseAcceptable(data)
           /\ ~file.nul /\ file.type \in allowedTypes)
          => /\ file.size = 10485760 =>
                  exit[r] = "accepted" /\ resp[r] = SuccessResponse
             /\ file.size = 10485761 =>
                  Is400(resp[r], FileSizeError) /\ NoDispatch(r)

C10_Witness ==
  \E r \in Slots :
    /\ Responded(r)
    /\ OtherwiseAcceptable(req[r].data)
    /\ req[r].data.attachment = File(pdf, 10485760)
    /\ exit[r] = "accepted"
    /\ resp[r] = SuccessResponse

\* The attachment gate lets the submission pass.
AttachmentAcceptable(data) ==
  \/ data.attachment.nul
  \/ data.attachment.size = 0
  \/ data.attachment.type \in allowedTypes /\ data.attachment.size <= 10485760

\* 200, success = true and the confirmation message.
IsConfirmation(response) ==
  /\ Is200Success(response)
  /\ "message" \in DOMAIN response.body
  /\ response.body.message =
       "Your message has been sent successfully. We'll get back to you within 24 hours."

\* C11. With a webhook configured, when the webhook call of a valid, non-spam
\* submission that was not rate-limited throws or returns a status that is not
\* 2xx, the request is answered at once with 200, success = true and the
\* confirmation message.
C11_DispatchFailureHidden ==
  [][\A r \in Slots, o \in {"notOk", "throw"} :
       (/\ webhookUrl
        /\ OtherwiseAcceptable(req[r].data)
        /\ AttachmentAcceptable(req[r].data)
        /\ FetchSettle(r, o))
       => /\ pc'[r] = "responded"
          /\ IsConfirmation(resp'[r])]_vars

C11_Witness ==
  \E r \in Slots :
    /\ webhookUrl
    /\ Responded(r)
    /\ OtherwiseAcceptable(req[r].data)
    /\ req[r].data.attachment = File(pdf, 1)
    /\ fetchCalls[r] = 1
    /\ LogCount(console[r], "emailFailed") = 1
    /\ IsConfirmation(resp[r])

\* C12. Every request whose body parse has completed and that waits for the
\* webhook call is eventually answered, also when the endpoint never answers.
C12_WebhookCannotBlock ==
  \A r \in Slots : (pc[r] = "fetch") ~> Responded(r)

\* The gates after the body parse, in the order of the pipeline.
GateOrder == <<"honeypot", "required", "email", "keywords", "attachment">>

\* Whether a gate, taken alone, stops the payload.
Stops(gate, data) ==
  CASE gate = "honeypot" -> NonEmpty(data.website)
    [] gate = "required" -> \E f \in RequiredFields(data) : ~NonEmpty(f)
    [] gate = "email" -> ~WellFormedEmail(data.email.s)
    [] gate = "keywords" -> containsSpam(data)
    [] gate = "attachment" -> ~AttachmentAcceptable(data)

\* The first gate of GateOrder that stops the payload, "accepted" if none does.
FirstGate(data) ==
  LET hit == {i \in DOMAIN GateOrder : Stops(GateOrder[i], data)}
  IN IF hit = {} THEN "accepted"
     ELSE GateOrder[CHOOSE i \in hit : \A j \in hit : i <= j]

\* C13. The response is that of the first gate, in the order rate limit (429),
\* body parse (500), honeypot (200 success), required fields (400), email (400),
\* keywords (200 success), attachment (400), that stops the request, and the
\* confirmation when none does. A request that arrives rate-limited is answered
\* 429 whatever its payload, and a request stopped by a gate leaves no trace of
\* a later gate: no dispatch, and no console line but its own.
C13_FirstGateDecides ==
  /\ [](\A r \in Slots :
          Responded(r) =>
            LET first == FirstGate(req[r].data)
            IN /\ exit[r] = "rateLimit" =>
                    resp[r].status = 429 /\ NoDispatch(r) /\ console[r] = <<>>
               /\ exit[r] = "parse" =>
                    resp[r].status = 500 /\ NoDispatch(r) /\ console[r] = <<"error">>
               /\ PassedEntry(r) =>
                    /\ first = "honeypot" =>
                         /\ resp[r] = [status |-> 200, body |-> [success |-> TRUE]]
                         /\ NoDispatch(r) /\ console[r] = <<"honeypot">>
                    /\ first = "required" =>
                         /\ Is400(resp[r], "Missing required fields")
                         /\ NoDispatch(r) /\ console[r] = <<>>
                    /\ first = "email" =>
                         /\ Is400(resp[r], "Invalid email address")
                         /\ NoDispatch(r) /\ console[r] = <<>>
                    /\ first = "keywords" =>
                         /\ resp[r] = [status |-> 200, body |-> [success |-> TRUE]]
                         /\ NoDispatch(r) /\ console[r] = <<"keywords">>
                    /\ first = "attachment" =>
                         /\ resp[r].status = 400
                         /\ NoDispatch(r) /\ console[r] = <<>>
                    /\ first = "accepted" => IsConfirmation(resp[r]))
  /\ [][\A r \in Slots :
          LET stored == rateLimitStore[req'[r].clientIP]
          IN (/\ pc[r] = "idle" /\ pc'[r] # "idle"
              /\ stored # NoRef
              /\ heap[stored].count >= 5
              /\ now <= heap[stored].resetTime)
             => /\ pc'[r] = "responded"
                /\ resp'[r].status = 429]_vars

C13_Witness ==
  \E r \in Slots :
    /\ Responded(r)
    /\ PassedEntry(r)
    /\ ~NonEmpty(req[r].data.website)
    /\ req[r].data.service.nul
    /\ ~WellFormedEmail(req[r].data.email.s)
    /\ KeywordInField(req[r].data)
    /\ req[r].data.attachment = File(png, MaxFileSize + 1)
    /\ Is400(resp[r], "Missing required fields")

\* C14. A request that passes every gate triggers the dispatcher exactly once:
\* with a webhook configured one fetch call, never a second one, and otherwise
\* one log of the submission. A request that ends at a gate (429, 500 on parse,
\* honeypot, 400 validation, keywords, 400 attachment) triggers nothing.
C14_DispatchExactlyOnce ==
  \A r \in Slots :
    LET passes == PassedEntry(r) /\ FirstGate(req[r].data) = "accepted"
        calls == fetchCalls[r]
        logs == LogCount(console[r], "submission")
    IN /\ calls <= 1 /\ logs <= 1
       /\ (Responded(r) /\ passes) =>
            IF webhookUrl THEN calls = 1 /\ logs = 0 ELSE calls = 0 /\ logs = 1
       /\ (Responded(r) /\ ~passes) => calls = 0 /\ logs = 0

C14_Witness ==
  \E r \in Slots :
    /\ webhookUrl
    /\ Responded(r)
    /\ PassedEntry(r)
    /\ FirstGate(req[r].data) = "accepted"
    /\ LogCount(console[r], "webhookFailed") = 1
    /\ fetchCalls[r] = 1

GenericError == "An unexpected error occurred. Please try again or contact us directly."

Record(store, h, ip) == IF store[ip] = NoRef THEN <<>> ELSE h[store[ip]]

\* C16. In every reachable state, also under interleaved concurrent requests of
\* one client, the count of every record of the store is between 0 and 5.
C16_CountInRange ==
  \A ip \in ClientIPs :
    rateLimitStore[ip] # NoRef =>
      heap[rateLimitStore[ip]].count \in 0..5

\* C17. A request that is answered 429 changes nothing in the store: the Map
\* has the same entries, and the count and resetTime of every record, that of
\* the client included, are the same after the request as before.
C17_RejectionLeavesStore ==
  [][\A r \in Slots, a \in Addresses, d \in CorePayloads :
       (POSTStart(r, a, d) /\ resp'[r].status = 429)
       => \A ip \in ClientIPs :
            Record(rateLimitStore', heap', ip) = Record(rateLimitStore, heap, ip)]_vars

C17_Witness ==
  \E r \in Slots :
    /\ Responded(r)
    /\ resp[r].status = 429
    /\ req[r].data = [ValidData EXCEPT !.website = Str(<<"x">>)]
    /\ now = WindowMs
    /\ Record(rateLimitStore, heap, req[r].clientIP) = [count |-> 5, resetTime |-> WindowMs]

\* C18. Requests handled one after another, a client whose record has count = 5:
\* a request that arrives at now <= resetTime (now = resetTime included) is
\* answered 429; a request that arrives at now > resetTime is not, its window
\* starts at its arrival (count 0, resetTime = arrival + 1 hour), and when a
\* request whose window started at its arrival is a valid non-spam submission
\* it is accepted and answered 200 with the confirmation, leaving the record
\* with count = 1 and resetTime = arrival + 1 hour.
C18_RecoveryAfterWindow ==
  /\ [](\A r \in Slots :
          (Responded(r) /\ exit[r] = "accepted") => IsConfirmation(resp[r]))
  /\ [][\A r \in Slots :
          LET ip == clientIPOf("")
              before == Record(rateLimitStore, heap, ip)
              after == Record(rateLimitStore', heap', ip)
          IN /\ \A d \in TwicePayloads :
                  (before # <<>> /\ before.count = 5 /\ POSTStart(r, "", d))
                  => IF now <= before.resetTime
                     THEN pc'[r] = "responded" /\ resp'[r].status = 429
                     ELSE /\ pc'[r] = "formData"
                          /\ after = [count |-> 0, resetTime |-> now + WindowMs]
             /\ (/\ before # <<>> /\ before.count = 0
                 /\ before.resetTime = req[r].now + WindowMs
                 /\ OtherwiseAcceptable(req[r].data)
                 /\ AttachmentAcceptable(req[r].data)
                 /\ FormDataResolve(r))
                => /\ exit'[r] = "accepted"
                   /\ pc'[r] = "responded" => IsConfirmation(resp'[r])
                   /\ after = [count |-> 1, resetTime |-> req[r].now + WindowMs]]_vars

\* The client's first request, accepted at WindowMs + 1; the record of the other
\* client shows the record both clients started with: count 5, resetTime WindowMs.
C18_Witness ==
  /\ Responded(1)
  /\ pc[2] = "idle"
  /\ exit[1] = "accepted"
  /\ IsConfirmation(resp[1])
  /\ now = WindowMs + 1
  /\ Record(rateLimitStore, heap, "203.0.113.7") = [count |-> 5, resetTime |-> WindowMs]
  /\ Record(rateLimitStore, heap, "unknown") =
       [count |-> 1, resetTime |-> WindowMs + 1 + WindowMs]

\* C19. The same payload submitted twice in sequence by one client, neither
\* request rate-limited (and both bodies parsed): both requests end at the same
\* return statement with the same status and the same body, and dispatch alike.
\* Handling a parsed request changes nothing in the store but, when the
\* request is accepted, the count of the client's record (its resetTime and the
\* other records stay).
C19_SamePayloadSameOutcome ==
  /\ []((/\ Responded(1) /\ Responded(2)
         /\ req[1].data = req[2].data
         /\ req[1].clientIP = req[2].clientIP
         /\ PassedEntry(1) /\ PassedEntry(2))
        => /\ resp[1] = resp[2]
           /\ exit[1] = exit[2]
           /\ NoDispatch(1) <=> NoDispatch(2))
  /\ [][\A r \in Slots :
          FormDataResolve(r) =>
            \A ip \in ClientIPs :
              LET before == Record(rateLimitStore, heap, ip)
                  after == Record(rateLimitStore', heap', ip)
              IN /\ (ip # req[r].clientIP \/ exit'[r] # "accepted") => after = before
                 /\ (ip = req[r].clientIP /\ exit'[r] = "accepted" /\ before # <<>>) =>
                      /\ after.count = before.count + 1
                      /\ after.resetTime = before.resetTime]_vars

C19_Witness ==
  /\ Responded(1) /\ Responded(2)
  /\ req[1].data = ValidData /\ req[2].data = ValidData
  /\ exit[1] = "accepted" /\ exit[2] = "accepted"
  /\ resp[1] = resp[2]
  /\ IsConfirmation(resp[2])
  /\ Record(rateLimitStore, heap, "unknown").count = 5

\* C20. Without a webhook URL, a submission that passes every gate makes no
\* outbound call, is logged to the console exactly once, and is answered 200
\* with success = true and the confirmation message.
C20_LogOnly ==
  \A r \in Slots :
    (/\ ~webhookUrl
     /\ Responded(r)
     /\ PassedEntry(r)
     /\ FirstGate(req[r].data) = "accepted")
    => /\ fetchCalls[r] = 0
       /\ LogCount(console[r], "submission") = 1
       /\ IsConfirmation(resp[r])

C20_Witness ==
  \E r \in Slots :
    /\ ~webhookUrl
    /\ Responded(r)
    /\ req[r].data = [ValidData EXCEPT !.attachment = File("application/zip", MaxFileSize)]
    /\ fetchCalls[r] = 0
    /\ console[r] = <<"banner", "submission", "rule">>
    /\ IsConfirmation(resp[r])

\* C21. Requests handled one after another: while the window of a client's
\* record is live (now <= resetTime) no step changes the resetTime of the
\* record, and a step that does change it is the arrival of a request of the
\* client after the window has elapsed, which sets it to now + 1 hour.
C21_WindowDoesNotSlide ==
  [][\A ip \in ClientIPs :
       LET before == Record(rateLimitStore, heap, ip)
           after == Record(rateLimitStore', heap', ip)
       IN before # <<>> =>
            /\ after # <<>>
            /\ now <= before.resetTime => after.resetTime = before.resetTime
            /\ after.resetTime # before.resetTime =>
                 /\ now > before.resetTime
                 /\ after.resetTime = now + WindowMs
                 /\ \E r \in Slots, a \in Addresses, d \in CorePayloads :
                      clientIPOf(a) = ip /\ POSTStart(r, a, d)]_vars

\* A submission that arrived at the last instant of the window was accepted,
\* and the window still ends there.
C21_Witness ==
  \E r \in Slots :
    LET ip == req[r].clientIP
    IN /\ Responded(r)
       /\ exit[r] = "accepted"
       /\ now = WindowMs
       /\ 0 \in DOMAIN acceptedAt[ip]
       /\ WindowMs \in DOMAIN acceptedAt[ip]
       /\ Record(rateLimitStore, heap, ip).resetTime = WindowMs
       /\ Record(rateLimitStore, heap, ip).count >= 2

\* C22. For an otherwise acceptable submission: an attachment of size 0 is not
\* validated, the submission is accepted and dispatched whatever the declared
\* type of the empty file; a non-empty attachment with a type outside the list
\* and a size above 10 MiB is answered 400 with the invalid file type error.
C22_EmptyAttachmentIgnored ==
  \A r \in Slots :
    LET data == req[r].data
        file == data.attachment
    IN (/\ Responded(r) /\ PassedEntry(r)
        /\ OtherwiseAcceptable(data)
        /\ ~file.nul)
       => /\ file.size = 0 =>
               /\ exit[r] = "accepted"
               /\ IsConfirmation(resp[r])
               /\ ~NoDispatch(r)
          /\ (file.size > 10485760 /\ file.type \notin allowedTypes) =>
               Is400(resp[r], FileTypeError) /\ NoDispatch(r)

C22_Witness ==
  \E r \in Slots :
    /\ Responded(r)
    /\ OtherwiseAcceptable(req[r].data)
    /\ req[r].data.attachment = File(png, 0)
    /\ exit[r] = "accepted"
    /\ IsConfirmation(resp[r])
    /\ ~NoDispatch(r)

\* C23. The store lives in the memory of the process: a restart leaves the
\* store empty; a client without record is not answered 429, however many of its
\* submissions were accepted within the hour before the restart, and its valid
\* submission is accepted; and a step that is not a restart removes no record.
C23_StoreInProcessMemory ==
  [][/\ Restart => \A ip \in ClientIPs : rateLimitStore'[ip] = NoRef
     /\ \A ip \in ClientIPs :
          (rateLimitStore[ip] # NoRef /\ rateLimitStore'[ip] = NoRef) =>
            restarts' = restarts + 1
     /\ \A r \in Slots, d \in CorePayloads :
          (rateLimitStore[clientIPOf(SeqAddress)] = NoRef /\ POSTStart(r, SeqAddress, d))
          => pc'[r] = "formData"
     /\ \A r \in Slots :
          (/\ restarts > 0
           /\ rateLimitStore[req[r].clientIP] = NoRef
           /\ OtherwiseAcceptable(req[r].data)
           /\ AttachmentAcceptable(req[r].data)
           /\ FormDataResolve(r))
          => /\ exit'[r] = "accepted"
             /\ Record(rateLimitStore', heap', req[r].clientIP).count = 1]_vars

\* Five submissions of the client were accepted at this instant, a sixth after
\* the restart: the record counts one.
C23_Witness ==
  \E r \in Slots :
    LET ip == req[r].clientIP
    IN /\ restarts = 1
       /\ Responded(r)
       /\ exit[r] = "accepted"
       /\ IsConfirmation(resp[r])
       /\ now \in DOMAIN acceptedAt[ip]
       /\ acceptedAt[ip][now] = 6
       /\ Record(rateLimitStore, heap, ip) = [count |-> 1, resetTime |-> now + WindowMs]

\* C24. Under every interleaving of concurrent requests of one client, once no
\* request is in flight, the count of the client's live record equals the number
\* of the client's submissions accepted in the window of the record.
C24_NoLostCount ==
  (\A r \in Slots : ~InFlight(r)) =>
    \A ip \in ClientIPs :
      LET record == Record(rateLimitStore, heap, ip)
      IN (record # <<>> /\ now <= record.resetTime) =>
           record.count = AcceptedInWindow(ip, record.resetTime)

\* C25 as stated. A request that does not end in acceptance leaves the store as
\* it was before the request, also when the window of its client had elapsed
\* when it arrived: neither its arrival (for a payload that a gate stops) nor the
\* step it ends with creates a record or changes a record's count or resetTime.
C25_AsStated ==
  [][\A r \in Slots :
       LET same == \A ip \in ClientIPs :
                     Record(rateLimitStore', heap', ip) = Record(rateLimitStore, heap, ip)
       IN /\ \A a \in Addresses, d \in CorePayloads :
               (FirstGate(d) # "accepted" /\ POSTStart(r, a, d)) => same
          /\ (FormDataResolve(r) /\ exit'[r] # "accepted") => same
          /\ FormDataReject(r) => same]_vars

\* C25 as amended. A request that does not end in acceptance creates no record
\* and changes no record whose window is live when it arrives; when the window
\* of its client's record had elapsed when it arrived, its arrival resets that
\* record (count 0, resetTime = now + 1 hour), and the step it ends with
\* changes nothing.
C25_RejectionAndStore ==
  [][\A r \in Slots :
       LET same == \A ip \in ClientIPs :
                     Record(rateLimitStore', heap', ip) = Record(rateLimitStore, heap, ip)
       IN /\ \A a \in Addresses, d \in CorePayloads :
               POSTStart(r, a, d) =>
                 \A ip \in ClientIPs :
                   LET before == Record(rateLimitStore, heap, ip)
                       after == Record(rateLimitStore', heap', ip)
                   IN IF ip = clientIPOf(a) /\ before # <<>> /\ now > before.resetTime
                      THEN after = [count |-> 0, resetTime |-> now + WindowMs]
                      ELSE after = before
          /\ (FormDataResolve(r) /\ exit'[r] # "accepted") => same
          /\ FormDataReject(r) => same]_vars

\* A request that a gate stopped has arrived after the window had elapsed: the
\* record it leaves has count 0 and a window that starts at its arrival.
C25_Witness ==
  \E r \in Slots :
    /\ Responded(r)
    /\ exit[r] \in {"honeypot", "required", "keywords", "fileType", "parse"}
    /\ now = WindowMs + 1
    /\ Record(rateLimitStore, heap, req[r].clientIP) =
         [count |-> 0, resetTime |-> WindowMs + 1 + WindowMs]

\* C26. Two clients A (without address) and B (203.0.113.7): no step of a
\* request of A creates or changes the record of B, and none of B that of A;
\* whether the request of B is answered 429 is decided by B's own record alone
\* (it exists, its count is 5 or more, its window is live), and when B's
\* submission is accepted B's count advances by one, whatever A has sent.
C26_PerClientIsolation ==
  [][LET A == clientIPOf("")
         B == clientIPOf(OtherAddress)
         beforeA == Record(rateLimitStore, heap, A)
         afterA == Record(rateLimitStore', heap', A)
         beforeB == Record(rateLimitStore, heap, B)
         afterB == Record(rateLimitStore', heap', B)
     IN /\ (\/ \E d \in ConcPayloads : POSTStart(1, "", d)
            \/ FormDataResolve(1)
            \/ FormDataReject(1)
            \/ \E o \in FetchOutcomes : FetchSettle(1, o)) => afterB = beforeB
        /\ (\/ POSTStart(2, OtherAddress, ValidData)
            \/ FormDataResolve(2)
            \/ FormDataReject(2)
            \/ \E o \in FetchOutcomes : FetchSettle(2, o)) => afterA = beforeA
        /\ POSTStart(2, OtherAddress, ValidData) =>
             (resp'[2].status = 429 <=>
                (beforeB # <<>> /\ beforeB.count >= 5 /\ now <= beforeB.resetTime))
        /\ FormDataResolve(2) =>
             /\ exit'[2] = "accepted"
             /\ afterB.count = IF beforeB = <<>> THEN 1 ELSE beforeB.count + 1]_vars

\* A has used up its limit and was answered 429; B, which started with the same
\* record of count 1, has its submission accepted at the same instant.
C26_Witness ==
  /\ now = 0
  /\ resp[1].status = 429
  /\ Record(rateLimitStore, heap, "unknown") = [count |-> 5, resetTime |-> WindowMs]
  /\ Responded(2)
  /\ exit[2] = "accepted"
  /\ IsConfirmation(resp[2])
  /\ Record(rateLimitStore, heap, OtherAddress) = [count |-> 2, resetTime |-> WindowMs]

\* C27. Every request without a client address has the identity 'unknown', and
\* when five submissions of that identity have been accepted within the window
\* of its record, a further address-less request, arriving in whichever slot
\* while the window is live and no other request is in flight, is answered 429.
C27_UnknownSharesOneLimit ==
  [][\A r \in Slots :
       LET stored == rateLimitStore["unknown"]
       IN (/\ \A s \in Slots : ~InFlight(s)
           /\ stored # NoRef
           /\ now <= heap[stored].resetTime
           /\ AcceptedInWindow("unknown", heap[stored].resetTime) >= 5
           /\ \E d \in TwicePayloads : POSTStart(r, "", d))
          => /\ req'[r].clientIP = "unknown"
             /\ resp'[r].status = 429]_vars

\* The fields the keyword check reads, in the order it joins them.
CheckedFields(data) ==
  <<Interpolate(data.message), OrEmpty(data.company),
    Interpolate(data.firstName), Interpolate(data.lastName)>>

EndsWith(str, suffix) ==
  Len(str) >= Len(suffix) /\ SubSeq(str, Len(str) - Len(suffix) + 1, Len(str)) = suffix

\* 'crypto mining' lies across the boundary of two fields that are joined next
\* to each other: one ends in 'crypto', the next starts with 'mining'.
KeywordAcrossFields(data) ==
  \E i \in 1..3 :
    /\ EndsWith(toLowerCase(CheckedFields(data)[i]), <<"c", "r", "y", "p", "t", "o">>)
    /\ startsWith(toLowerCase(CheckedFields(data)[i + 1]), <<"m", "i", "n", "i", "n", "g">>)

\* Honeypot empty, required fields present, email well-formed: the submission
\* reaches the keyword check.
ReachesKeywordCheck(data) ==
  /\ ~NonEmpty(data.website)
  /\ \A f \in RequiredFields(data) : NonEmpty(f)
  /\ WellFormedEmail(data.email.s)

\* C28 as stated. A submission that reaches the keyword check is dropped as
\* keyword spam if and only if one of message, company, firstName, lastName on
\* its own contains a keyword; message 'crypto' with company 'mining' is not.
C28_AsStated ==
  [][\A r \in Slots :
       (FormDataResolve(r) /\ ReachesKeywordCheck(req[r].data))
       => (exit'[r] = "keywords" <=> KeywordInField(req[r].data))]_vars

\* C28 as amended. A submission that reaches the keyword check is dropped as
\* keyword spam (200, success, no message, no dispatch, not counted) if and only
\* if one of message, company, firstName, lastName contains a keyword or
\* 'crypto mining' lies across two of them joined next to each other; a keyword
\* only in email, service, phone, timeline or projectSize does not make it spam.
C28_KeywordsInJoinedFields ==
  [][\A r \in Slots :
       LET data == req[r].data
       IN (FormDataResolve(r) /\ ReachesKeywordCheck(data))
          => /\ exit'[r] = "keywords" <=> (KeywordInField(data) \/ KeywordAcrossFields(data))
             /\ exit'[r] = "keywords" =>
                  /\ resp'[r] = [status |-> 200, body |-> [success |-> TRUE]]
                  /\ NoDispatch(r)'
                  /\ UNCHANGED <<rateLimitStore, acceptedAt>>]_vars

\* 'crypto' in message and 'mining' in company, no field with a keyword of its
\* own: the submission was dropped as keyword spam.
C28_Witness ==
  \E r \in Slots :
    /\ Responded(r)
    /\ exit[r] = "keywords"
    /\ req[r].data.message = Str(<<"c", "r", "y", "p", "t", "o">>)
    /\ req[r].data.company = Str(<<"m", "i", "n", "i", "n", "g">>)
    /\ ~KeywordInField(req[r].data)
    /\ Is200Success(resp[r])
    /\ NoDispatch(r)

\* C29. The response of every answered request has status 200, 400, 429 or
\* 500; success is true exactly when the status is 200; the body holds an error
\* text exactly when success is false; and the body holds the confirmation
\* message only when the submission passed every gate and reached dispatch
\* (the webhook was called or the notification was logged).
C29_BodyMatchesStatus ==
  \A r \in Slots :
    Responded(r) =>
      /\ resp[r].status \in {200, 400, 429, 500}
      /\ resp[r].body.success = TRUE <=> resp[r].status = 200
      /\ "error" \in DOMAIN resp[r].body <=> resp[r].body.success = FALSE
      /\ "error" \in DOMAIN resp[r].body => resp[r].body.error # ""
      /\ DOMAIN resp[r].body \subseteq {"success", "error", "message"}
      /\ "message" \in DOMAIN resp[r].body =>
           /\ IsConfirmation(resp[r])
           /\ exit[r] = "accepted"
           /\ FirstGate(req[r].data) = "accepted"
           /\ fetchCalls[r] = 1 \/ LogCount(console[r], "submission") = 1

\* A submission dropped as keyword spam: 200 and success, neither message nor
\* error text.
C29_Witness ==
  \E r \in Slots :
    /\ Responded(r)
    /\ exit[r] = "keywords"
    /\ resp[r].status = 200
    /\ DOMAIN resp[r].body = {"success"}
    /\ resp[r].body.success = TRUE
    /\ NoDispatch(r)

\* C30. The fetch handler of the service worker intercepts no request whose
\* method is not GET: such an event is left to the browser, is answered neither
\* from the cache nor by the handler's own fetch, and this also when the cache
\* holds an entry for /api/contact. Every response the handler stores, or is
\* about to store, belongs to a GET request of this origin and has status 200.
C30_SubmissionsBypassCache ==
  /\ (sw.event # NoEvent /\ sw.event.method # "GET") =>
       /\ sw.pc = "passed"
       /\ sw.answer = NoAnswer
  /\ sw.answer.from = "cache" => sw.event.method = "GET"
  /\ \A e \in (sw.cache \cup {sw.put}) \ {NoEntry} :
       e.by = "fetch" =>
         /\ e.method = "GET"
         /\ e.url \in SameOriginUrls
         /\ e.status = 200

\* The cache holds an entry for /api/contact (put there by the periodic sync)
\* and an entry the fetch handler stored; a POST to /api/contact has arrived
\* and was left to the browser.
C30_Witness ==
  /\ CriticalEntries \subseteq sw.cache
  /\ \E e \in sw.cache : e.by = "fetch" /\ e.url = Script
  /\ sw.event.method = "POST"
  /\ sw.event.url = ApiContact
  /\ sw.pc = "passed"
  /\ sw.answer = NoAnswer

====
